---- MODULE Spec2Model ----
(***************************************************************************)
(* State machine of the DaemonAIApp page component (src/unnamed/part_003,  *)
(* lines 1-800): the document text, the two suggestion collections, the    *)
(* selection, the daemon list and the requests in flight to the backend.   *)
(*                                                                         *)
(* Every handler runs to its first await as one step; the code after an    *)
(* await is one further step per outcome of the request.  State updaters   *)
(* (setX(prev => ...)) are applied to the state current at that step.      *)
(* Values a handler captured when it was called (its `suggestion`          *)
(* argument, the `selectedSuggestion` of the render it was created in) are *)
(* stored with the request in flight and used unchanged when it resolves.  *)
(*                                                                         *)
(* A suggestion is a JavaScript object.  Its identity is the field ref;    *)
(* `{ ...s, is_outdated: true }` makes a new object, so it gets a new ref. *)
(* sid numbers the response that created the suggestion and is carried     *)
(* over by the copy; rid numbers the requests (suggestion, rewrite,        *)
(* delete, create and answer requests alike) in the order of dispatch.     *)
(*                                                                         *)
(* Spec is the page without the add-daemon modal.  SpecApply, SpecNav,     *)
(* SpecSpan and SpecCatalog run parts of the page further: longer queues,  *)
(* navigation after rewrites, responses with spans of every shape, and the *)
(* daemon catalog with the add-daemon modal.  SpecRequest has the click on *)
(* a blank text and the Test Connection button of the error banner.        *)
(* SpecEarlier is the earlier page of the same file (lines 801-1407), with *)
(* one suggestion per daemon and the answer path.                          *)
(***************************************************************************)
EXTENDS Integers, Sequences, FiniteSets, TLC

\* ---- bounds --------------------------------------------------------------
\* Requests dispatched to the backend in one run: suggestion, rewrite and
\* delete requests together.
MaxDispatch == 3

\* ---- universes of inputs --------------------------------------------------
\* Documents: the initial text and a whitespace-only text.
SAMPLE_TEXT == <<"a", "b">>
Docs == { SAMPLE_TEXT, <<" ">> }

\* isDefaultDaemon: the ids the page never offers a delete button for.
DefaultDaemonIds == {"devil_advocate", "grammar_enthusiast", "clarity_coach"}

\* What GET /daemons answers with (data.daemons).
ServerDaemons == {"clarity_coach", "custom_1"}

\* Shapes of data.suggestion: a question with a span to fix, or the
\* "No specific issues found" answer without a span.
Kinds == { [noIssue |-> FALSE, hasSpan |-> TRUE],
           [noIssue |-> TRUE,  hasSpan |-> FALSE] }

\* The add-daemon form as it is constructed and as a successful create leaves
\* it (guardrails and color, which no handler reads, are left out).
EmptyDaemonForm == [name |-> "", prompt |-> ""]

\* null / undefined in a Suggestion-typed slot (both are falsy).
Null == [ref |-> <<0, 0, "o">>, sid |-> 0, daemon_id |-> "none",
         noIssue |-> FALSE, hasSpan |-> FALSE, is_outdated |-> FALSE]

VARIABLES
  text,                \* useState(SAMPLE_TEXT)
  suggestions,         \* useState<Suggestion[]>([])
  suggestionQueue,     \* useState<Suggestion[]>([])
  selectedSuggestion,  \* useState<Suggestion | null>(null)
  daemons,             \* useState<Daemon[]>([]), as the set of their ids
  loading,             \* useState(false)
  connectionError,     \* useState<string | null>(null): "none" or the message kind
  showDeleteConfirm,   \* useState<string | null>(null): "none" or a daemon id
  deleteError,         \* useState<string | null>(null): "none" or "notFound"
  sugReqs,             \* POST /suggestion/{id} in flight
  applyReqs,           \* POST /apply-suggestion in flight
  delReqs,             \* DELETE /daemons/{id} in flight
  healthReqs,          \* GET /health in flight on behalf of loadDaemons
  listReqs,            \* GET /daemons in flight
  nextRid,             \* the number of the next request dispatched
  nextSid,             \* the number of the next suggestion to arrive
  showAddDaemon,       \* useState(false)
  newDaemon,           \* useState({ name: "", prompt: "", ... })
  createReqs,          \* POST /daemons in flight
  testReqs,            \* GET /health in flight for the Test Connection button
  answerReqs           \* POST /answer in flight (the earlier page)

queues   == << suggestions, suggestionQueue, selectedSuggestion >>
catalog  == << daemons, showDeleteConfirm, deleteError >>
inflight == << sugReqs, applyReqs, delReqs, healthReqs, listReqs >>
counters == << nextRid, nextSid >>
form     == << showAddDaemon, newDaemon, createReqs >>
aside    == << testReqs, answerReqs >>

vars == << text, queues, catalog, loading, connectionError, inflight,
           counters, form, aside >>

\* ---- array helpers --------------------------------------------------------
\* prev.findIndex(s => s === x), 0-based, -1 when absent
FindIndex(q, x) ==
  IF \E i \in 1..Len(q) : q[i].ref = x.ref
  THEN (CHOOSE i \in 1..Len(q) :
          /\ q[i].ref = x.ref
          /\ \A j \in 1..(i - 1) : q[j].ref # x.ref) - 1
  ELSE -1

\* prev.filter(s => s !== x)
RemoveByIdentity(q, x) == SelectSeq(q, LAMBDA s : s.ref # x.ref)

\* prev.filter(s => s.daemon_id !== daemonId)
RemoveByDaemon(q, daemonId) == SelectSeq(q, LAMBDA s : s.daemon_id # daemonId)

\* s => ({ ...s, is_outdated: true }): a new object; arr names the array the
\* copy is made for ("s" for suggestions, "q" for suggestionQueue).
OutdatedCopy(s, arr) ==
  [s EXCEPT !.is_outdated = TRUE, !.ref = <<s.sid, s.ref[2] + 1, arr>>]

\* .map(s => ({ ...s, is_outdated: true }))
MarkOutdated(q, arr) == [i \in 1..Len(q) |-> OutdatedCopy(q[i], arr)]

\* text.trim() is empty
IsBlank(t) == \A i \in 1..Len(t) : t[i] = " "

\* The modals (add daemon, delete confirmation, delete error) are
\* full-viewport overlays (fixed inset-0, z-50): while one is rendered the
\* page below takes no click.
PageClickable ==
  ~showAddDaemon /\ showDeleteConfirm = "none" /\ deleteError = "none"

\* ---- construction -----------------------------------------------------------
\* The state after the first render and its mount effect: loadDaemons() has
\* called testConnection(), whose GET /health is in flight.
Init ==
  /\ text = SAMPLE_TEXT
  /\ suggestions = <<>>
  /\ suggestionQueue = <<>>
  /\ selectedSuggestion = Null
  /\ daemons = {}
  /\ loading = FALSE
  /\ connectionError = "none"
  /\ showDeleteConfirm = "none"
  /\ deleteError = "none"
  /\ sugReqs = {}
  /\ applyReqs = {}
  /\ delReqs = {}
  /\ healthReqs = 1
  /\ listReqs = 0
  /\ nextRid = 1
  /\ nextSid = 1
  /\ showAddDaemon = FALSE
  /\ newDaemon = EmptyDaemonForm
  /\ createReqs = {}
  /\ testReqs = 0
  /\ answerReqs = {}

\* ---- loadDaemons / testConnection -------------------------------------------
\* testConnection: response.ok; loadDaemons goes on to GET /daemons.
HealthOk ==
  /\ healthReqs > 0
  /\ healthReqs' = healthReqs - 1
  /\ connectionError' = "none"
  /\ listReqs' = listReqs + 1
  /\ UNCHANGED << form, aside, text, queues, catalog, loading, sugReqs, applyReqs, delReqs,
                  counters >>

\* testConnection: a non-ok status or a thrown fetch; loadDaemons returns.
HealthFail ==
  /\ healthReqs > 0
  /\ healthReqs' = healthReqs - 1
  /\ \E msg \in {"status", "connect"} : connectionError' = msg
  /\ UNCHANGED << form, aside, text, queues, catalog, loading, sugReqs, applyReqs, delReqs,
                  listReqs, counters >>

\* loadDaemons: setDaemons(data.daemons)
ListOk(list) ==
  /\ listReqs > 0
  /\ listReqs' = listReqs - 1
  /\ daemons' = list
  /\ UNCHANGED << form, aside, text, queues, showDeleteConfirm, deleteError, loading,
                  connectionError, sugReqs, applyReqs, delReqs, healthReqs,
                  counters >>

\* loadDaemons: catch
ListFail ==
  /\ listReqs > 0
  /\ listReqs' = listReqs - 1
  /\ connectionError' = "load"
  /\ UNCHANGED << form, aside, text, queues, catalog, loading, sugReqs, applyReqs, delReqs,
                  healthReqs, counters >>

\* ---- getSuggestionFromDaemon ------------------------------------------------
\* Click on a daemon swatch: up to the await of the fetch.
RequestSuggestion(d) ==
  /\ PageClickable
  /\ d \in daemons
  /\ ~IsBlank(text)
  /\ loading' = TRUE
  /\ sugReqs' = sugReqs \cup {[rid |-> nextRid, daemon |-> d, text |-> text]}
  /\ nextRid' = nextRid + 1
  /\ UNCHANGED << form, aside, text, queues, catalog, connectionError, applyReqs, delReqs,
                  healthReqs, listReqs, nextSid >>

\* The object data.suggestion of a response to request r: what the response
\* holds (k), the daemon it was asked of, no is_outdated.
NewSuggestion(r, k, sid) ==
  [ref |-> <<sid, 0, "o">>, sid |-> sid, daemon_id |-> r.daemon,
   is_outdated |-> FALSE] @@ k

\* Faulty variant: the arriving suggestion is selected only when nothing is selected.
SuggestionArrives_KeepSelection(r, k) ==
  LET suggestion == NewSuggestion(r, k, nextSid) IN
  /\ r \in sugReqs
  /\ sugReqs' = sugReqs \ {r}
  /\ suggestions' = Append(suggestions, suggestion)
  /\ suggestionQueue' = Append(suggestionQueue, suggestion)
  /\ selectedSuggestion' =
       IF selectedSuggestion = Null THEN suggestion ELSE selectedSuggestion
  /\ nextSid' = nextSid + 1
  /\ loading' = FALSE
  /\ UNCHANGED << form, aside, text, catalog, connectionError, applyReqs, delReqs,
                  healthReqs, listReqs, nextRid >>

\* Faulty variant: the arriving suggestion is put at the head of the queue.
SuggestionArrives_Prepend(r, k) ==
  LET suggestion == NewSuggestion(r, k, nextSid) IN
  /\ r \in sugReqs
  /\ sugReqs' = sugReqs \ {r}
  /\ suggestions' = <<suggestion>> \o suggestions
  /\ suggestionQueue' = <<suggestion>> \o suggestionQueue
  /\ selectedSuggestion' = suggestion
  /\ nextSid' = nextSid + 1
  /\ loading' = FALSE
  /\ UNCHANGED << form, aside, text, catalog, connectionError, applyReqs, delReqs,
                  healthReqs, listReqs, nextRid >>

\* Faulty variant: the arriving suggestion replaces the ones its daemon already has.
SuggestionArrives_ReplaceSameDaemon(r, k) ==
  LET suggestion == NewSuggestion(r, k, nextSid) IN
  /\ r \in sugReqs
  /\ sugReqs' = sugReqs \ {r}
  /\ suggestions' = Append(RemoveByDaemon(suggestions, r.daemon), suggestion)
  /\ suggestionQueue' =
       Append(RemoveByDaemon(suggestionQueue, r.daemon), suggestion)
  /\ selectedSuggestion' = suggestion
  /\ nextSid' = nextSid + 1
  /\ loading' = FALSE
  /\ UNCHANGED << form, aside, text, catalog, connectionError, applyReqs, delReqs,
                  healthReqs, listReqs, nextRid >>

\* Faulty variant: the arriving suggestion is marked outdated when the text is no
\* longer the one its request carried.
SuggestionArrives_TagsStale(r, k) ==
  LET suggestion == [NewSuggestion(r, k, nextSid)
                       EXCEPT !.is_outdated = (r.text # text)] IN
  /\ r \in sugReqs
  /\ sugReqs' = sugReqs \ {r}
  /\ suggestions' = Append(suggestions, suggestion)
  /\ suggestionQueue' = Append(suggestionQueue, suggestion)
  /\ selectedSuggestion' = suggestion
  /\ nextSid' = nextSid + 1
  /\ loading' = FALSE
  /\ UNCHANGED << form, aside, text, catalog, connectionError, applyReqs, delReqs,
                  healthReqs, listReqs, nextRid >>

\* Faulty variant: the response of a daemon no longer in the list is dropped.
SuggestionArrives_DropsIfDeleted(r, k) ==
  LET suggestion == NewSuggestion(r, k, nextSid)
      known      == r.daemon \in daemons IN
  /\ r \in sugReqs
  /\ sugReqs' = sugReqs \ {r}
  /\ suggestions' = IF known THEN Append(suggestions, suggestion) ELSE suggestions
  /\ suggestionQueue' =
       IF known THEN Append(suggestionQueue, suggestion) ELSE suggestionQueue
  /\ selectedSuggestion' = IF known THEN suggestion ELSE selectedSuggestion
  /\ nextSid' = IF known THEN nextSid + 1 ELSE nextSid
  /\ loading' = FALSE
  /\ UNCHANGED << form, aside, text, catalog, connectionError, applyReqs, delReqs,
                  healthReqs, listReqs, nextRid >>

\* Faulty variant: the arriving suggestion is put into the queue twice.
SuggestionArrives_AppendsTwice(r, k) ==
  LET suggestion == NewSuggestion(r, k, nextSid) IN
  /\ r \in sugReqs
  /\ sugReqs' = sugReqs \ {r}
  /\ suggestions' = Append(suggestions, suggestion)
  /\ suggestionQueue' = Append(Append(suggestionQueue, suggestion), suggestion)
  /\ selectedSuggestion' = suggestion
  /\ nextSid' = nextSid + 1
  /\ loading' = FALSE
  /\ UNCHANGED << form, aside, text, catalog, connectionError, applyReqs, delReqs,
                  healthReqs, listReqs, nextRid >>

\* Faulty variant: a response that is ok takes the error message down.
SuggestionArrives_ClearsError(r, k) ==
  LET suggestion == NewSuggestion(r, k, nextSid) IN
  /\ r \in sugReqs
  /\ sugReqs' = sugReqs \ {r}
  /\ suggestions' = Append(suggestions, suggestion)
  /\ suggestionQueue' = Append(suggestionQueue, suggestion)
  /\ selectedSuggestion' = suggestion
  /\ nextSid' = nextSid + 1
  /\ loading' = FALSE
  /\ connectionError' = "none"
  /\ UNCHANGED << form, aside, text, catalog, applyReqs, delReqs,
                  healthReqs, listReqs, nextRid >>

\* The response is ok: append to both arrays, select the new suggestion.
SuggestionArrives(r, k) ==
  LET suggestion == NewSuggestion(r, k, nextSid) IN
  /\ r \in sugReqs
  /\ sugReqs' = sugReqs \ {r}
  /\ suggestions' = Append(suggestions, suggestion)
  /\ suggestionQueue' = Append(suggestionQueue, suggestion)
  /\ selectedSuggestion' = suggestion
  /\ nextSid' = nextSid + 1
  /\ loading' = FALSE
  /\ UNCHANGED << form, aside, text, catalog, connectionError, applyReqs, delReqs,
                  healthReqs, listReqs, nextRid >>

\* Faulty variant: a failed request also clears the selection.
SuggestionFails_ClearsSelection(r) ==
  /\ r \in sugReqs
  /\ sugReqs' = sugReqs \ {r}
  /\ connectionError' = "suggestion"
  /\ loading' = FALSE
  /\ selectedSuggestion' = Null
  /\ UNCHANGED << form, aside, text, suggestions, suggestionQueue, catalog, applyReqs,
                  delReqs, healthReqs, listReqs, counters >>

\* The fetch throws or the response is not ok: catch, finally.
SuggestionFails(r) ==
  /\ r \in sugReqs
  /\ sugReqs' = sugReqs \ {r}
  /\ connectionError' = "suggestion"
  /\ loading' = FALSE
  /\ UNCHANGED << form, aside, text, queues, catalog, applyReqs, delReqs, healthReqs,
                  listReqs, counters >>

\* ---- handleApplySuggestion ---------------------------------------------------
\* The Fix button of the suggestion panel: rendered for the selected suggestion
\* unless its question says "No specific issues found", disabled when
\* selectedSuggestion.is_outdated.
FixEnabled ==
  /\ selectedSuggestion # Null
  /\ ~selectedSuggestion.noIssue
  /\ ~selectedSuggestion.is_outdated

\* Click on Fix: handleApplySuggestion(selectedSuggestion) up to the await.
ApplySuggestion ==
  /\ PageClickable
  /\ FixEnabled
  /\ loading' = TRUE
  /\ applyReqs' = applyReqs \cup
                    {[rid |-> nextRid, suggestion |-> selectedSuggestion]}
  /\ nextRid' = nextRid + 1
  /\ UNCHANGED << form, aside, text, queues, catalog, connectionError, sugReqs, delReqs,
                  healthReqs, listReqs, nextSid >>

\* The index selected after an apply: the one before the applied suggestion,
\* clamped to the new queue.
NextIndex(currentIndex, newLen) ==
  LET n1 == currentIndex - 1
      n2 == IF n1 < 0 THEN 0 ELSE n1
  IN  IF n2 >= newLen THEN newLen - 1 ELSE n2

\* Faulty variant: the suggestions that remain keep their flags.
ApplySucceeds_KeepsFlags(a, improved_text) ==
  LET suggestion   == a.suggestion
      currentIndex == FindIndex(suggestionQueue, suggestion)
      newQueue     == RemoveByIdentity(suggestionQueue, suggestion)
      nextIndex    == NextIndex(currentIndex, Len(newQueue))
  IN
  /\ a \in applyReqs
  /\ applyReqs' = applyReqs \ {a}
  /\ text' = improved_text
  /\ suggestions' = RemoveByIdentity(suggestions, suggestion)
  /\ suggestionQueue' = newQueue
  /\ selectedSuggestion' =
       IF Len(newQueue) > 0 THEN newQueue[nextIndex + 1] ELSE Null
  /\ loading' = FALSE
  /\ UNCHANGED << form, aside, catalog, connectionError, sugReqs, delReqs, healthReqs,
                  listReqs, counters >>

\* The response is ok: replace the text, remove the applied suggestion,
\* mark the others outdated, select.
ApplySucceeds(a, improved_text) ==
  LET suggestion   == a.suggestion
      currentIndex == FindIndex(suggestionQueue, suggestion)
      newQueue     == MarkOutdated(RemoveByIdentity(suggestionQueue, suggestion), "q")
      nextIndex    == NextIndex(currentIndex, Len(newQueue))
  IN
  /\ a \in applyReqs
  /\ applyReqs' = applyReqs \ {a}
  /\ text' = improved_text
  /\ suggestions' = MarkOutdated(RemoveByIdentity(suggestions, suggestion), "s")
  /\ suggestionQueue' = newQueue
  /\ selectedSuggestion' =
       IF Len(newQueue) > 0 THEN newQueue[nextIndex + 1] ELSE Null
  /\ loading' = FALSE
  /\ UNCHANGED << form, aside, catalog, connectionError, sugReqs, delReqs, healthReqs,
                  listReqs, counters >>

\* Faulty variant: the failure path removes the suggestion all the same.
ApplyFails_RemovesSuggestion(a) ==
  /\ a \in applyReqs
  /\ applyReqs' = applyReqs \ {a}
  /\ connectionError' = "apply"
  /\ loading' = FALSE
  /\ suggestions' = RemoveByIdentity(suggestions, a.suggestion)
  /\ suggestionQueue' = RemoveByIdentity(suggestionQueue, a.suggestion)
  /\ selectedSuggestion' =
       IF Len(suggestionQueue') > 0 THEN suggestionQueue'[1] ELSE Null
  /\ UNCHANGED << form, aside, text, catalog, sugReqs, delReqs, healthReqs, listReqs,
                  counters >>

\* The fetch throws or the response is not ok: catch, finally.
ApplyFails(a) ==
  /\ a \in applyReqs
  /\ applyReqs' = applyReqs \ {a}
  /\ connectionError' = "apply"
  /\ loading' = FALSE
  /\ UNCHANGED << form, aside, text, queues, catalog, sugReqs, delReqs, healthReqs,
                  listReqs, counters >>

\* ---- handleRejectSuggestion / handleDismissSuggestion --------------------------
\* The selection after a removal: the first member of the new queue.
FirstOrNull(newQueue) == IF Len(newQueue) > 0 THEN newQueue[1] ELSE Null

\* Faulty variant: rejecting marks the suggestions that remain outdated.
RejectSuggestion_MarksOthers ==
  /\ PageClickable
  /\ selectedSuggestion # Null
  /\ ~selectedSuggestion.noIssue
  /\ suggestions' =
       MarkOutdated(RemoveByIdentity(suggestions, selectedSuggestion), "s")
  /\ suggestionQueue' =
       MarkOutdated(RemoveByIdentity(suggestionQueue, selectedSuggestion), "q")
  /\ selectedSuggestion' = FirstOrNull(suggestionQueue')
  /\ UNCHANGED << form, aside, text, catalog, loading, connectionError, inflight, counters >>

\* Faulty variant: rejecting a suggestion that is not in the queue raises the
\* error message.
RejectSuggestion_ErrorIfAbsent ==
  /\ PageClickable
  /\ selectedSuggestion # Null
  /\ ~selectedSuggestion.noIssue
  /\ suggestions' = RemoveByIdentity(suggestions, selectedSuggestion)
  /\ suggestionQueue' = RemoveByIdentity(suggestionQueue, selectedSuggestion)
  /\ selectedSuggestion' = FirstOrNull(suggestionQueue')
  /\ connectionError' =
       IF FindIndex(suggestionQueue, selectedSuggestion) < 0 THEN "reject"
       ELSE connectionError
  /\ UNCHANGED << form, aside, text, catalog, loading, inflight, counters >>

\* Click on Reject (rendered next to Fix).
RejectSuggestion ==
  /\ PageClickable
  /\ selectedSuggestion # Null
  /\ ~selectedSuggestion.noIssue
  /\ suggestions' = RemoveByIdentity(suggestions, selectedSuggestion)
  /\ suggestionQueue' = RemoveByIdentity(suggestionQueue, selectedSuggestion)
  /\ selectedSuggestion' = FirstOrNull(suggestionQueue')
  /\ UNCHANGED << form, aside, text, catalog, loading, connectionError, inflight, counters >>

\* Click on Dismiss (rendered instead of Fix and Reject).
DismissSuggestion ==
  /\ PageClickable
  /\ selectedSuggestion # Null
  /\ selectedSuggestion.noIssue
  /\ suggestions' = RemoveByIdentity(suggestions, selectedSuggestion)
  /\ suggestionQueue' = RemoveByIdentity(suggestionQueue, selectedSuggestion)
  /\ selectedSuggestion' = FirstOrNull(suggestionQueue')
  /\ UNCHANGED << form, aside, text, catalog, loading, connectionError, inflight, counters >>

\* ---- clearHighlights -------------------------------------------------------------
\* Faulty variant: clearing the highlights also puts the sample text back.
ClearHighlights_ResetsText ==
  /\ PageClickable
  /\ Len(suggestions) > 0
  /\ suggestions' = <<>>
  /\ suggestionQueue' = <<>>
  /\ selectedSuggestion' = Null
  /\ text' = SAMPLE_TEXT
  /\ UNCHANGED << form, aside, catalog, loading, connectionError, inflight, counters >>

\* Faulty variant: clearing empties the arrays and keeps the selection.
ClearHighlights_KeepsSelection ==
  /\ PageClickable
  /\ Len(suggestions) > 0
  /\ suggestions' = <<>>
  /\ suggestionQueue' = <<>>
  /\ UNCHANGED << form, aside, text, selectedSuggestion, catalog, loading,
                  connectionError, inflight, counters >>

\* The Clear All Highlights button, rendered while suggestions.length > 0.
ClearHighlights ==
  /\ PageClickable
  /\ Len(suggestions) > 0
  /\ suggestions' = <<>>
  /\ suggestionQueue' = <<>>
  /\ selectedSuggestion' = Null
  /\ UNCHANGED << form, aside, text, catalog, loading, connectionError, inflight, counters >>

\* ---- goToNextSuggestion / goToPreviousSuggestion ------------------------------------
\* q[i] for a 0-based i; undefined outside the array.
At(q, i) == IF i >= 0 /\ i < Len(q) THEN q[i + 1] ELSE Null

\* Faulty variant: next wraps from the last member to the second.
GoToNextSuggestion_WrapsToSecond ==
  LET currentIndex == FindIndex(suggestionQueue, selectedSuggestion)
      nextIndex    == IF currentIndex + 1 >= Len(suggestionQueue)
                      THEN 1 ELSE currentIndex + 1
  IN
  /\ PageClickable
  /\ selectedSuggestion # Null
  /\ Len(suggestionQueue) > 1
  /\ selectedSuggestion' = At(suggestionQueue, nextIndex)
  /\ UNCHANGED << form, aside, text, suggestions, suggestionQueue, catalog, loading,
                  connectionError, inflight, counters >>

\* The navigation buttons are rendered in the panel of the selected suggestion
\* while suggestionQueue.length > 1.
GoToNextSuggestion ==
  LET currentIndex == FindIndex(suggestionQueue, selectedSuggestion)
      nextIndex    == (currentIndex + 1) % Len(suggestionQueue)
  IN
  /\ PageClickable
  /\ selectedSuggestion # Null
  /\ Len(suggestionQueue) > 1
  /\ selectedSuggestion' = At(suggestionQueue, nextIndex)
  /\ UNCHANGED << form, aside, text, suggestions, suggestionQueue, catalog, loading,
                  connectionError, inflight, counters >>

GoToPreviousSuggestion ==
  LET currentIndex == FindIndex(suggestionQueue, selectedSuggestion)
      prevIndex    == IF currentIndex = 0 THEN Len(suggestionQueue) - 1
                      ELSE currentIndex - 1
  IN
  /\ PageClickable
  /\ selectedSuggestion # Null
  /\ Len(suggestionQueue) > 1
  /\ selectedSuggestion' = At(suggestionQueue, prevIndex)
  /\ UNCHANGED << form, aside, text, suggestions, suggestionQueue, catalog, loading,
                  connectionError, inflight, counters >>

\* ---- renderHighlightedText: onClick of the highlighted span ----------------------------
\* suggestions.find(s => s.daemon_id === daemonId)
FindByDaemon(q, daemonId) ==
  IF \E i \in 1..Len(q) : q[i].daemon_id = daemonId
  THEN q[CHOOSE i \in 1..Len(q) :
           /\ q[i].daemon_id = daemonId
           /\ \A j \in 1..(i - 1) : q[j].daemon_id # daemonId]
  ELSE Null

\* The span is rendered while suggestions is not empty and the selected
\* suggestion has both indices.
HighlightClick ==
  LET suggestion == FindByDaemon(suggestions, selectedSuggestion.daemon_id) IN
  /\ PageClickable
  /\ Len(suggestions) > 0
  /\ selectedSuggestion # Null
  /\ selectedSuggestion.hasSpan
  /\ suggestion # Null
  /\ selectedSuggestion' = suggestion
  /\ UNCHANGED << form, aside, text, suggestions, suggestionQueue, catalog, loading,
                  connectionError, inflight, counters >>

\* ---- TextareaWithCopy onChange ------------------------------------------------------------
\* The textarea is rendered while suggestions is empty.
EditText(value) ==
  /\ PageClickable
  /\ Len(suggestions) = 0
  /\ value # text
  /\ text' = value
  /\ UNCHANGED << form, aside, queues, catalog, loading, connectionError, inflight,
                  counters >>

\* ---- deleteDaemon ---------------------------------------------------------------------------
\* Faulty variant: the delete button is rendered for every daemon.
AskDelete_AnyDaemon(d) ==
  /\ PageClickable
  /\ d \in daemons
  /\ showDeleteConfirm' = d
  /\ UNCHANGED << form, aside, text, queues, daemons, deleteError, loading,
                  connectionError, inflight, counters >>

\* The delete button of a daemon row, rendered when !isDefaultDaemon.
AskDelete(d) ==
  /\ PageClickable
  /\ d \in daemons
  /\ d \notin DefaultDaemonIds
  /\ showDeleteConfirm' = d
  /\ UNCHANGED << form, aside, text, queues, daemons, deleteError, loading,
                  connectionError, inflight, counters >>

\* Cancel in the confirmation modal.
CancelDelete ==
  /\ showDeleteConfirm # "none"
  /\ deleteError = "none"
  /\ showDeleteConfirm' = "none"
  /\ UNCHANGED << form, aside, text, queues, daemons, deleteError, loading,
                  connectionError, inflight, counters >>

\* Delete in the confirmation modal: deleteDaemon(showDeleteConfirm) up to the
\* await.  The handler keeps the selectedSuggestion of the render it was made
\* in, so what `selectedSuggestion?.daemon_id === daemonId` will yield is
\* settled here.
DeleteDaemon ==
  /\ showDeleteConfirm # "none"
  /\ deleteError = "none"
  /\ delReqs' = delReqs \cup
       {[rid |-> nextRid, daemonId |-> showDeleteConfirm,
         selectedIsFromDaemon |-> (selectedSuggestion.daemon_id = showDeleteConfirm)]}
  /\ nextRid' = nextRid + 1
  /\ UNCHANGED << form, aside, text, queues, catalog, loading, connectionError, sugReqs,
                  applyReqs, healthReqs, listReqs, nextSid >>

\* The selection after a successful delete: cleared if the handler's own
\* selectedSuggestion was from the deleted daemon.
SelectionAfterDelete(current, selectedIsFromDaemon) ==
  IF selectedIsFromDaemon THEN Null ELSE current

\* Faulty variant: a successful delete empties the queue.
DeleteSucceeds_ClearsQueue(r) ==
  /\ r \in delReqs
  /\ delReqs' = delReqs \ {r}
  /\ daemons' = daemons \ {r.daemonId}
  /\ showDeleteConfirm' = "none"
  /\ suggestions' = <<>>
  /\ suggestionQueue' = <<>>
  /\ selectedSuggestion' =
       SelectionAfterDelete(selectedSuggestion, r.selectedIsFromDaemon)
  /\ UNCHANGED << form, aside, text, deleteError, loading, connectionError, sugReqs,
                  applyReqs, healthReqs, listReqs, counters >>

\* response.ok
DeleteSucceeds(r) ==
  /\ r \in delReqs
  /\ delReqs' = delReqs \ {r}
  /\ daemons' = daemons \ {r.daemonId}
  /\ showDeleteConfirm' = "none"
  /\ suggestions' = RemoveByDaemon(suggestions, r.daemonId)
  /\ suggestionQueue' = RemoveByDaemon(suggestionQueue, r.daemonId)
  /\ selectedSuggestion' =
       SelectionAfterDelete(selectedSuggestion, r.selectedIsFromDaemon)
  /\ UNCHANGED << form, aside, text, deleteError, loading, connectionError, sugReqs,
                  applyReqs, healthReqs, listReqs, counters >>

\* Faulty variant: a 404 is reported like any other failure.
DeleteNotFound_RaisesConnectionError(r) ==
  /\ r \in delReqs
  /\ delReqs' = delReqs \ {r}
  /\ connectionError' = "delete"
  /\ UNCHANGED << form, aside, text, queues, catalog, loading, sugReqs, applyReqs,
                  healthReqs, listReqs, counters >>

\* response.status === 404
DeleteNotFound(r) ==
  /\ r \in delReqs
  /\ delReqs' = delReqs \ {r}
  /\ showDeleteConfirm' = "none"
  /\ deleteError' = "notFound"
  /\ UNCHANGED << form, aside, text, queues, daemons, loading, connectionError, sugReqs,
                  applyReqs, healthReqs, listReqs, counters >>

\* Any other status, or the fetch throws: catch.
DeleteFails(r) ==
  /\ r \in delReqs
  /\ delReqs' = delReqs \ {r}
  /\ connectionError' = "delete"
  /\ UNCHANGED << form, aside, text, queues, catalog, loading, sugReqs, applyReqs,
                  healthReqs, listReqs, counters >>

\* OK in the delete error modal.
CloseDeleteError ==
  /\ deleteError # "none"
  /\ deleteError' = "none"
  /\ UNCHANGED << form, aside, text, queues, daemons, showDeleteConfirm, loading,
                  connectionError, inflight, counters >>

\* ---- renderHighlightedText ----------------------------------------------------------------------
\* t.slice(start, end) of JavaScript, on the text as a sequence of
\* characters: a negative index counts from the end, an index beyond either
\* end is brought back to it, and the slice is empty unless from < to.
Slice(t, start, end) ==
  LET len  == Len(t)
      from == IF start < 0 THEN (IF len + start < 0 THEN 0 ELSE len + start)
              ELSE (IF start > len THEN len ELSE start)
      to   == IF end < 0 THEN (IF len + end < 0 THEN 0 ELSE len + end)
              ELSE (IF end > len THEN len ELSE end)
  IN  IF from >= to THEN <<>> ELSE SubSeq(t, from + 1, to)

\* Faulty variant: an outdated selection is not highlighted.
RenderHighlightedText_SuppressOutdated(t, suggs, selected) ==
  IF \/ Len(suggs) = 0
     \/ selected = Null
     \/ ~selected.hasSpan
     \/ selected.is_outdated
  THEN [highlighted |-> FALSE, before |-> t, mark |-> <<>>, after |-> <<>>]
  ELSE [highlighted |-> TRUE,
        before |-> Slice(t, 0, selected.start_index),
        mark   |-> Slice(t, selected.start_index, selected.end_index),
        after  |-> Slice(t, selected.end_index, Len(t))]

\* What the text pane shows: the plain text, or the text before the span, the
\* highlighted span and the text after it.
RenderHighlightedText(t, suggs, selected) ==
  IF \/ Len(suggs) = 0
     \/ selected = Null
     \/ ~selected.hasSpan
  THEN [highlighted |-> FALSE, before |-> t, mark |-> <<>>, after |-> <<>>]
  ELSE [highlighted |-> TRUE,
        before |-> Slice(t, 0, selected.start_index),
        mark   |-> Slice(t, selected.start_index, selected.end_index),
        after  |-> Slice(t, selected.end_index, Len(t))]

\* ---- addDaemon --------------------------------------------------------------------------------
\* Values typed into a field of the form.
FieldValues == {"", "x"}

\* What GET /daemons answers with once a daemon was created.
ServerDaemonsAfterCreate == ServerDaemons \cup {"custom_2"}

\* The Add Daemon swatch.
OpenAddDaemon ==
  /\ PageClickable
  /\ showAddDaemon' = TRUE
  /\ UNCHANGED << aside, text, queues, catalog, loading, connectionError, inflight,
                  counters, newDaemon, createReqs >>

\* Cancel in the add-daemon modal: the fields keep what was typed.
CancelAddDaemon ==
  /\ showAddDaemon
  /\ showAddDaemon' = FALSE
  /\ UNCHANGED << aside, text, queues, catalog, loading, connectionError, inflight,
                  counters, newDaemon, createReqs >>

\* onChange of the name or the prompt field.
EditNewDaemon(field, value) ==
  /\ showAddDaemon
  /\ newDaemon[field] # value
  /\ newDaemon' = [newDaemon EXCEPT ![field] = value]
  /\ UNCHANGED << aside, text, queues, catalog, loading, connectionError, inflight,
                  counters, showAddDaemon, createReqs >>

\* Faulty variant: the request is dispatched whatever the fields hold.
AddDaemon_NoValidation ==
  /\ showAddDaemon
  /\ createReqs' = createReqs \cup
       {[rid |-> nextRid, name |-> newDaemon.name, prompt |-> newDaemon.prompt]}
  /\ nextRid' = nextRid + 1
  /\ UNCHANGED << aside, text, queues, catalog, loading, connectionError, inflight,
                  nextSid, showAddDaemon, newDaemon >>

\* Add Daemon in the modal: addDaemon() up to the await; it returns at once
\* when the name or the prompt is empty.
AddDaemon ==
  /\ showAddDaemon
  /\ IF newDaemon.name = "" \/ newDaemon.prompt = ""
     THEN UNCHANGED vars
     ELSE /\ createReqs' = createReqs \cup
               {[rid |-> nextRid, name |-> newDaemon.name,
                 prompt |-> newDaemon.prompt]}
          /\ nextRid' = nextRid + 1
          /\ UNCHANGED << aside, text, queues, catalog, loading, connectionError,
                          inflight, nextSid, showAddDaemon, newDaemon >>

\* response.ok: reset the form, close the modal, loadDaemons() (whose
\* testConnection dispatches GET /health).
CreateOk(c) ==
  /\ c \in createReqs
  /\ createReqs' = createReqs \ {c}
  /\ newDaemon' = EmptyDaemonForm
  /\ showAddDaemon' = FALSE
  /\ healthReqs' = healthReqs + 1
  /\ UNCHANGED << aside, text, queues, catalog, loading, connectionError, sugReqs,
                  applyReqs, delReqs, listReqs, counters >>

\* The response is not ok, or the fetch throws (catch: console.error only).
CreateFails(c) ==
  /\ c \in createReqs
  /\ createReqs' = createReqs \ {c}
  /\ UNCHANGED << aside, text, queues, catalog, loading, connectionError, inflight,
                  counters, showAddDaemon, newDaemon >>

\* ---- getSuggestionFromDaemon, from the click ------------------------------------------------
\* Faulty variant: the request is dispatched whatever the text holds.
GetSuggestionFromDaemon_NoTextCheck(d) ==
  /\ PageClickable
  /\ d \in daemons
  /\ loading' = TRUE
  /\ sugReqs' = sugReqs \cup {[rid |-> nextRid, daemon |-> d, text |-> text]}
  /\ nextRid' = nextRid + 1
  /\ UNCHANGED << form, aside, text, queues, catalog, connectionError,
                  applyReqs, delReqs, healthReqs, listReqs, nextSid >>

\* Click on a daemon swatch, the return on a blank text included:
\* `if (!text.trim()) return` comes before anything else.
GetSuggestionFromDaemon(d) ==
  /\ PageClickable
  /\ d \in daemons
  /\ IF IsBlank(text) THEN UNCHANGED vars ELSE RequestSuggestion(d)

\* ---- the Test Connection button ---------------------------------------------------------------
\* The button of the error banner, rendered while connectionError is set:
\* testConnection() up to the await.
TestConnection ==
  /\ PageClickable
  /\ connectionError # "none"
  /\ testReqs' = testReqs + 1
  /\ UNCHANGED << form, answerReqs, text, queues, catalog, loading,
                  connectionError, inflight, counters >>

\* response.ok
TestOk ==
  /\ testReqs > 0
  /\ testReqs' = testReqs - 1
  /\ connectionError' = "none"
  /\ UNCHANGED << form, answerReqs, text, queues, catalog, loading, inflight,
                  counters >>

\* A non-ok status or a thrown fetch.
TestFail ==
  /\ testReqs > 0
  /\ testReqs' = testReqs - 1
  /\ \E msg \in {"status", "connect"} : connectionError' = msg
  /\ UNCHANGED << form, answerReqs, text, queues, catalog, loading, inflight,
                  counters >>

\* ---- specification ----------------------------------------------------------------------------
\* The handlers carry no bound of their own: the number of requests a run
\* dispatches is capped here.
Next ==
  \/ HealthOk
  \/ HealthFail
  \/ ListOk(ServerDaemons)
  \/ ListFail
  \/ nextRid <= MaxDispatch /\ \E d \in ServerDaemons : RequestSuggestion(d)
  \/ \E r \in sugReqs, k \in Kinds : SuggestionArrives(r, k)
  \/ \E r \in sugReqs : SuggestionFails(r)
  \/ nextRid <= MaxDispatch /\ ApplySuggestion
  \/ \E a \in applyReqs, t \in Docs : ApplySucceeds(a, t)
  \/ \E a \in applyReqs : ApplyFails(a)
  \/ RejectSuggestion
  \/ DismissSuggestion
  \/ ClearHighlights
  \/ GoToNextSuggestion
  \/ GoToPreviousSuggestion
  \/ HighlightClick
  \/ \E v \in Docs : EditText(v)
  \/ \E d \in ServerDaemons : AskDelete(d)
  \/ CancelDelete
  \/ nextRid <= MaxDispatch /\ DeleteDaemon
  \/ \E r \in delReqs : DeleteSucceeds(r)
  \/ \E r \in delReqs : DeleteNotFound(r)
  \/ \E r \in delReqs : DeleteFails(r)
  \/ CloseDeleteError

Spec == Init /\ [][Next]_vars

\* ---- the apply protocol on a longer queue -----------------------------------------------------
\* Requests dispatched in one run of SpecApply.
ApplyMaxDispatch == 6

\* One daemon, suggestions with a span to fix, rewrites that succeed, no
\* removal other than by apply.
NextApply ==
  \/ HealthOk
  \/ ListOk(ServerDaemons)
  \/ nextRid <= ApplyMaxDispatch /\ nextSid + Cardinality(sugReqs) <= 4
       /\ RequestSuggestion("clarity_coach")
  \/ \E r \in sugReqs :
       SuggestionArrives(r, [noIssue |-> FALSE, hasSpan |-> TRUE])
  \/ nextRid <= ApplyMaxDispatch /\ ApplySuggestion
  \/ \E a \in applyReqs : ApplySucceeds(a, SAMPLE_TEXT)
  \/ GoToNextSuggestion

SpecApply == Init /\ [][NextApply]_vars

\* ---- the daemon catalog ------------------------------------------------------------------------
\* Requests dispatched in one run of SpecCatalog.
CatalogMaxDispatch == 3

\* Loading, creating and deleting daemons; no suggestion is requested.
NextCatalog ==
  \/ HealthOk
  \/ HealthFail
  \/ \E list \in {ServerDaemons, ServerDaemonsAfterCreate} : ListOk(list)
  \/ ListFail
  \/ OpenAddDaemon
  \/ CancelAddDaemon
  \/ \E field \in {"name", "prompt"}, value \in FieldValues :
       EditNewDaemon(field, value)
  \/ nextRid <= CatalogMaxDispatch /\ AddDaemon
  \/ \E c \in createReqs : CreateOk(c)
  \/ \E c \in createReqs : CreateFails(c)
  \/ \E d \in ServerDaemonsAfterCreate : AskDelete(d)
  \/ CancelDelete
  \/ nextRid <= CatalogMaxDispatch /\ DeleteDaemon
  \/ \E r \in delReqs : DeleteSucceeds(r)
  \/ \E r \in delReqs : DeleteNotFound(r)
  \/ \E r \in delReqs : DeleteFails(r)
  \/ CloseDeleteError

SpecCatalog == Init /\ [][NextCatalog]_vars

\* ---- navigation in the queue -------------------------------------------------------------------
\* Requests dispatched in one run of SpecNav.
NavMaxDispatch == 4

\* One daemon, suggestions with a span, rewrites that succeed, navigation by
\* the two buttons and by the click on the highlight.
NextNav ==
  \/ HealthOk
  \/ ListOk(ServerDaemons)
  \/ nextRid <= NavMaxDispatch /\ RequestSuggestion("clarity_coach")
  \/ \E r \in sugReqs :
       SuggestionArrives(r, [noIssue |-> FALSE, hasSpan |-> TRUE])
  \/ nextRid <= NavMaxDispatch /\ ApplySuggestion
  \/ \E a \in applyReqs : ApplySucceeds(a, SAMPLE_TEXT)
  \/ GoToNextSuggestion
  \/ GoToPreviousSuggestion
  \/ HighlightClick

SpecNav == Init /\ [][NextNav]_vars

\* ---- spans ------------------------------------------------------------------------------------
\* Requests dispatched in one run of SpecSpan.
SpanMaxDispatch == 3

\* Texts a rewrite answers with: the sample text or a shorter one.
SpanDocs == { SAMPLE_TEXT, <<"a">> }

\* Responses with a span: any indices around a text of two characters, the
\* span text right or wrong.
SpanKinds ==
  [noIssue : {FALSE}, hasSpan : {TRUE}, start_index : -1..3,
   end_index : -1..3, span_text : {<<"a">>, <<"b">>}]

\* One daemon and at most two suggestions of it; responses with spans of
\* every shape; rewrites that may shorten the text.
NextSpan ==
  \/ HealthOk
  \/ ListOk(ServerDaemons)
  \/ nextRid <= SpanMaxDispatch /\ nextSid + Cardinality(sugReqs) <= 2
       /\ RequestSuggestion("clarity_coach")
  \/ \E r \in sugReqs, k \in SpanKinds : SuggestionArrives(r, k)
  \/ nextRid <= SpanMaxDispatch /\ ApplySuggestion
  \/ \E a \in applyReqs, t \in SpanDocs : ApplySucceeds(a, t)
  \/ RejectSuggestion

SpecSpan == Init /\ [][NextSpan]_vars

\* ---- requests and the error banner --------------------------------------------------------------
\* Requests dispatched in one run of SpecRequest (health checks apart).
RequestMaxDispatch == 3

\* The custom daemon alone is asked; the text may be blanked by the user or by
\* a rewrite; every request may fail; the banner's button is clicked with no
\* other health check of its own in flight.
NextRequest ==
  \/ HealthOk
  \/ HealthFail
  \/ ListOk(ServerDaemons)
  \/ ListFail
  \/ testReqs = 0 /\ TestConnection
  \/ TestOk
  \/ TestFail
  \/ \E v \in Docs : EditText(v)
  \/ nextRid <= RequestMaxDispatch /\ GetSuggestionFromDaemon("custom_1")
  \/ \E r \in sugReqs :
       SuggestionArrives(r, [noIssue |-> FALSE, hasSpan |-> TRUE])
  \/ \E r \in sugReqs : SuggestionFails(r)
  \/ nextRid <= RequestMaxDispatch /\ ApplySuggestion
  \/ \E a \in applyReqs, t \in Docs : ApplySucceeds(a, t)
  \/ \E a \in applyReqs : ApplyFails(a)
  \/ AskDelete("custom_1")
  \/ nextRid <= RequestMaxDispatch /\ DeleteDaemon
  \/ \E r \in delReqs : DeleteSucceeds(r)
  \/ \E r \in delReqs : DeleteFails(r)

SpecRequest == Init /\ [][NextRequest]_vars

\* ---- the earlier page (src/unnamed/part_003, lines 801-1407) ------------------------------------
\* The earlier DaemonAIApp has the same state without suggestionQueue (left
\* empty here), keeps one suggestion per daemon and has an answer path in
\* place of Fix and Reject.  testConnection, loadDaemons, the start of
\* getSuggestionFromDaemon and its catch, the textarea, the delete button,
\* the confirmation and the failure branches of deleteDaemon are the code of
\* the page above, and so are their actions.

\* Requests dispatched in one run of SpecEarlier.
EarlierMaxDispatch == 3

\* What data.suggestion holds on this page: a question, no answer yet.
EarlierKinds == [question : {"q1", "q2"}, answer : {""}]

\* data.answer: an answer, or undefined ("") when the body has none.
Answers == {"ans", ""}

\* s => ({ ...s, answer: data.answer }): a new object; arr names what the
\* copy is made for ("s" for suggestions, "p" for the panel's selection).
AnsweredCopy(s, answer, arr) ==
  [s EXCEPT !.answer = answer, !.ref = <<s.sid, s.ref[2] + 1, arr>>]

\* Faulty variant: the arriving suggestion is appended and the daemon's old
\* one is kept.
EarlierSuggestionArrives_KeepsOld(r, k) ==
  LET suggestion == NewSuggestion(r, k, nextSid) IN
  /\ r \in sugReqs
  /\ sugReqs' = sugReqs \ {r}
  /\ suggestions' = Append(suggestions, suggestion)
  /\ selectedSuggestion' = suggestion
  /\ nextSid' = nextSid + 1
  /\ loading' = FALSE
  /\ UNCHANGED << form, aside, text, suggestionQueue, catalog, connectionError,
                  applyReqs, delReqs, healthReqs, listReqs, nextRid >>

\* The response is ok: the suggestion replaces the one its daemon has, at the
\* end of the list, and is selected.
EarlierSuggestionArrives(r, k) ==
  LET suggestion == NewSuggestion(r, k, nextSid)
      filtered   == RemoveByDaemon(suggestions, r.daemon) IN
  /\ r \in sugReqs
  /\ sugReqs' = sugReqs \ {r}
  /\ suggestions' = Append(filtered, suggestion)
  /\ selectedSuggestion' = suggestion
  /\ nextSid' = nextSid + 1
  /\ loading' = FALSE
  /\ UNCHANGED << form, aside, text, suggestionQueue, catalog, connectionError,
                  applyReqs, delReqs, healthReqs, listReqs, nextRid >>

\* Get Answer, rendered in the panel of a selected suggestion without answer
\* and disabled while loading: handleAnswerRequest(selectedSuggestion) up to
\* the await.  The handler keeps the suggestions of the render it was made in.
AnswerRequest ==
  /\ PageClickable
  /\ selectedSuggestion # Null
  /\ selectedSuggestion.answer = ""
  /\ ~loading
  /\ answerReqs' = answerReqs \cup
       {[rid |-> nextRid, suggestion |-> selectedSuggestion,
         suggestions |-> suggestions]}
  /\ nextRid' = nextRid + 1
  /\ UNCHANGED << form, testReqs, text, queues, catalog, loading,
                  connectionError, inflight, nextSid >>

\* The updated list: the handler's own suggestions, with the answer put into
\* the entries of the same daemon and question.
UpdatedSuggestions(held, suggestion, answer) ==
  [i \in 1..Len(held) |->
     IF held[i].daemon_id = suggestion.daemon_id
          /\ held[i].question = suggestion.question
     THEN AnsweredCopy(held[i], answer, "s")
     ELSE held[i]]

\* The body of the response was read (there is no response.ok test).
AnswerArrives(a, answer) ==
  /\ a \in answerReqs
  /\ answerReqs' = answerReqs \ {a}
  /\ suggestions' = UpdatedSuggestions(a.suggestions, a.suggestion, answer)
  /\ selectedSuggestion' = AnsweredCopy(a.suggestion, answer, "p")
  /\ UNCHANGED << form, testReqs, text, suggestionQueue, catalog, loading,
                  connectionError, inflight, counters >>

\* The fetch throws or the body is not JSON: catch (console.error only).
AnswerFails(a) ==
  /\ a \in answerReqs
  /\ answerReqs' = answerReqs \ {a}
  /\ UNCHANGED << form, testReqs, text, queues, catalog, loading,
                  connectionError, inflight, counters >>

\* The x button of the panel.
CloseSuggestion ==
  /\ PageClickable
  /\ selectedSuggestion # Null
  /\ selectedSuggestion' = Null
  /\ UNCHANGED << form, aside, text, suggestions, suggestionQueue, catalog,
                  loading, connectionError, inflight, counters >>

\* Clear Highlights, rendered while suggestions.length > 0.
EarlierClearHighlights ==
  /\ PageClickable
  /\ Len(suggestions) > 0
  /\ suggestions' = <<>>
  /\ selectedSuggestion' = Null
  /\ UNCHANGED << form, aside, text, suggestionQueue, catalog, loading,
                  connectionError, inflight, counters >>

\* deleteDaemon, response.ok.
EarlierDeleteSucceeds(r) ==
  /\ r \in delReqs
  /\ delReqs' = delReqs \ {r}
  /\ daemons' = daemons \ {r.daemonId}
  /\ showDeleteConfirm' = "none"
  /\ suggestions' = RemoveByDaemon(suggestions, r.daemonId)
  /\ selectedSuggestion' =
       SelectionAfterDelete(selectedSuggestion, r.selectedIsFromDaemon)
  /\ UNCHANGED << form, aside, text, suggestionQueue, deleteError, loading,
                  connectionError, sugReqs, applyReqs, healthReqs, listReqs,
                  counters >>

NextEarlier ==
  \/ HealthOk
  \/ HealthFail
  \/ ListOk(ServerDaemons)
  \/ ListFail
  \/ nextRid <= EarlierMaxDispatch /\ \E d \in ServerDaemons : RequestSuggestion(d)
  \/ \E r \in sugReqs, k \in EarlierKinds : EarlierSuggestionArrives(r, k)
  \/ \E r \in sugReqs : SuggestionFails(r)
  \/ nextRid <= EarlierMaxDispatch /\ AnswerRequest
  \/ \E a \in answerReqs, answer \in Answers : AnswerArrives(a, answer)
  \/ \E a \in answerReqs : AnswerFails(a)
  \/ CloseSuggestion
  \/ EarlierClearHighlights
  \/ \E v \in Docs : EditText(v)
  \/ \E d \in ServerDaemons : AskDelete(d)
  \/ CancelDelete
  \/ nextRid <= EarlierMaxDispatch /\ DeleteDaemon
  \/ \E r \in delReqs : EarlierDeleteSucceeds(r)
  \/ \E r \in delReqs : DeleteNotFound(r)
  \/ \E r \in delReqs : DeleteFails(r)
  \/ CloseDeleteError

SpecEarlier == Init /\ [][NextEarlier]_vars

\* ---- claims --------------------------------------------------------------------------------------
\* The sids of the members of q, in order.
Sids(q) == [i \in 1..Len(q) |-> q[i].sid]

\* The 0-based position in q of the member with this sid, -1 if there is none.
PositionOfSid(q, sid) ==
  IF \E i \in 1..Len(q) : q[i].sid = sid
  THEN (CHOOSE i \in 1..Len(q) : q[i].sid = sid) - 1
  ELSE -1

\* s is, as the same object, a member of q.
IsMember(q, s) == \E i \in 1..Len(q) : q[i].ref = s.ref

\* C1: a rewrite that succeeds for a suggestion S of the queue removes exactly
\* S, leaves the other members in their order and marks each of them outdated.
C1_ApplyRemovesExactlyS ==
  [][\A a \in applyReqs, t \in Docs :
       (ApplySucceeds(a, t) /\ PositionOfSid(suggestionQueue, a.suggestion.sid) >= 0)
       => /\ Sids(suggestionQueue') =
               SelectSeq(Sids(suggestionQueue), LAMBDA x : x # a.suggestion.sid)
          /\ \A i \in 1..Len(suggestionQueue') : suggestionQueue'[i].is_outdated]_vars

\* C2: after a rewrite succeeds for the suggestion at queue position i, the
\* selection is the member at position max(i-1, 0) of the new queue, or null
\* when the new queue is empty.
C2_SelectionAfterApply ==
  [][\A a \in applyReqs, t \in Docs :
       LET i == PositionOfSid(suggestionQueue, a.suggestion.sid) IN
       (ApplySucceeds(a, t) /\ i >= 0)
       => selectedSuggestion' =
            IF Len(suggestionQueue') = 0 THEN Null
            ELSE At(suggestionQueue', IF i - 1 > 0 THEN i - 1 ELSE 0)]_vars

\* C3: the selection is null or is, as the same object, a member of the queue.
C3_SelectionInQueue ==
  selectedSuggestion = Null \/ IsMember(suggestionQueue, selectedSuggestion)

\* C4: no two rewrite requests for the same suggestion are in flight.
C4_OneRewritePerSuggestion ==
  \A a, b \in applyReqs : a.suggestion.sid = b.suggestion.sid => a = b

\* C5: a rewrite request is dispatched only for a suggestion that is then in
\* the queue and not outdated.
C5_ApplyOnlyPendingMember ==
  [][ApplySuggestion =>
       /\ PositionOfSid(suggestionQueue, selectedSuggestion.sid) >= 0
       /\ ~selectedSuggestion.is_outdated]_vars

\* C6: a rewrite request that fails changes neither the text, nor the queue,
\* nor any is_outdated flag, nor the selection; it sets the error message; a
\* suggestion that was selected and in the queue still is.
C6_FailedApplyChangesNothing ==
  [][\A a \in applyReqs :
       ApplyFails(a) =>
         /\ text' = text
         /\ suggestionQueue' = suggestionQueue
         /\ suggestions' = suggestions
         /\ selectedSuggestion' = selectedSuggestion
         /\ connectionError' # "none"
         /\ (selectedSuggestion = a.suggestion
               /\ IsMember(suggestionQueue, a.suggestion))
            => (selectedSuggestion' = a.suggestion
                  /\ IsMember(suggestionQueue', a.suggestion))]_vars

\* The only request for a suggestion arrived, the only rewrite request failed:
\* the suggestion is still selected, in the queue and not outdated.
C6_Witness ==
  /\ nextRid = 3
  /\ sugReqs = {} /\ applyReqs = {}
  /\ connectionError = "apply"
  /\ Len(suggestionQueue) = 1
  /\ selectedSuggestion = suggestionQueue[1]
  /\ ~selectedSuggestion.is_outdated
  /\ text = SAMPLE_TEXT

C8_LatestArrivalSelected ==
  [][\A r \in sugReqs, k \in Kinds :
       SuggestionArrives(r, k) =>
         /\ selectedSuggestion' = suggestionQueue'[Len(suggestionQueue')]
         /\ selectedSuggestion'.sid = nextSid
         /\ selectedSuggestion'.daemon_id = r.daemon
         /\ \A i \in 1..Len(suggestionQueue) :
              suggestionQueue[i].ref # selectedSuggestion'.ref]_vars

\* Two requests were dispatched and the first is still in flight while the
\* suggestion of the second has arrived and is selected.
C8_Witness ==
  /\ nextRid = 3
  /\ \E r \in sugReqs : r.rid = 1
  /\ Len(suggestionQueue) = 1
  /\ selectedSuggestion = suggestionQueue[1]
  /\ selectedSuggestion.sid = 1

\* C9: the members of the queue are in the order of their arrival (sid numbers
\* the arrivals), and an arrival appends its suggestion at the tail and leaves
\* every member the queue had as it was.
C9_QueueInArrivalOrder ==
  /\ [](\A i, j \in 1..Len(suggestionQueue) :
          i < j => suggestionQueue[i].sid < suggestionQueue[j].sid)
  /\ [][\A r \in sugReqs, k \in Kinds :
          SuggestionArrives(r, k) =>
            /\ Len(suggestionQueue') = Len(suggestionQueue) + 1
            /\ \A i \in 1..Len(suggestionQueue) :
                 suggestionQueue'[i] = suggestionQueue[i]
            /\ suggestionQueue'[Len(suggestionQueue')].sid = nextSid]_vars

\* Three requests were dispatched; the second and the third have arrived, in
\* some order, and are queued in that order while the first is in flight.
C9_Witness ==
  /\ nextRid = 4
  /\ \E r \in sugReqs : r.rid = 1
  /\ Len(suggestionQueue) = 2
  /\ Sids(suggestionQueue) = <<1, 2>>

\* C10: a click on a daemon dispatches a request whatever requests are in
\* flight, and an arrival adds exactly one entry, a new object, to the queue
\* and leaves every other request in flight.
C10_ConcurrentRequests ==
  /\ [](\A d \in daemons :
          (PageClickable /\ ~IsBlank(text)) => ENABLED RequestSuggestion(d))
  /\ [][\A r \in sugReqs, k \in Kinds :
          SuggestionArrives(r, k) =>
            /\ Len(suggestionQueue') = Len(suggestionQueue) + 1
            /\ ~IsMember(suggestionQueue, suggestionQueue'[Len(suggestionQueue')])
            /\ sugReqs' = sugReqs \ {r}]_vars

\* Two requests for one daemon were in flight together; the second has arrived
\* and a third request for the daemon was dispatched while the first is still
\* in flight.
C10_Witness ==
  /\ nextRid = 4
  /\ \E r1, r3 \in sugReqs :
       /\ r1.rid = 1 /\ r3.rid = 3
       /\ r1.daemon = r3.daemon
       /\ Len(suggestionQueue) = 1
       /\ suggestionQueue[1].daemon_id = r1.daemon

\* The swatch of daemon d takes a click and the click dispatches a request.
CanRequest(d) == PageClickable /\ d \in daemons /\ ~IsBlank(text)

\* C11: a suggestion request that fails adds no suggestion: the queue, the
\* selection, the text and every is_outdated flag are as before, the error
\* message is set, and a request that could be made for the daemon before the
\* failure can be made after it (the swatch dispatches whenever it can be
\* clicked, error message or not).
C11_FailedRequestAddsNothing ==
  /\ [][\A r \in sugReqs :
          SuggestionFails(r) =>
            /\ suggestionQueue' = suggestionQueue
            /\ suggestions' = suggestions
            /\ selectedSuggestion' = selectedSuggestion
            /\ text' = text
            /\ connectionError' # "none"
            /\ CanRequest(r.daemon)' = CanRequest(r.daemon)]_vars
  /\ [](\A d \in ServerDaemons :
          CanRequest(d) <=> ENABLED RequestSuggestion(d))

\* Two requests were dispatched; one arrived, the other failed: the suggestion
\* that arrived is still queued, selected and not outdated, and the swatch of
\* its daemon can be clicked again.
C11_Witness ==
  /\ nextRid = 3 /\ nextSid = 2
  /\ sugReqs = {}
  /\ connectionError = "suggestion"
  /\ Len(suggestionQueue) = 1
  /\ selectedSuggestion = suggestionQueue[1]
  /\ ~selectedSuggestion.is_outdated
  /\ CanRequest(selectedSuggestion.daemon_id)

\* C12: the suggestion an arrival appends to the queue is not outdated,
\* whatever rewrites succeeded or are in flight since its request was
\* dispatched.
C12_FreshOnArrival ==
  [][\A r \in sugReqs, k \in Kinds :
       SuggestionArrives(r, k) =>
         /\ ~suggestionQueue'[Len(suggestionQueue')].is_outdated
         /\ ~suggestions'[Len(suggestions')].is_outdated
         /\ ~selectedSuggestion'.is_outdated]_vars

\* Two requests and one rewrite were dispatched and all have answered: the
\* first suggestion was applied, the text was replaced, and the second
\* suggestion, which arrived afterwards, is queued and not outdated.
C12_Witness ==
  /\ nextRid = 4 /\ nextSid = 3
  /\ sugReqs = {} /\ applyReqs = {} /\ delReqs = {}
  /\ text = <<" ">>
  /\ Len(suggestionQueue) = 1
  /\ suggestionQueue[1].sid = 2
  /\ ~suggestionQueue[1].is_outdated
  /\ selectedSuggestion = suggestionQueue[1]

\* C13: a suggestion that arrives when the text is no longer the one sent with
\* its request is marked outdated on arrival.
C13_StaleArrivalTagged ==
  [][\A r \in sugReqs, k \in Kinds :
       (SuggestionArrives(r, k) /\ r.text # text)
       => suggestionQueue'[Len(suggestionQueue')].is_outdated]_vars

\* C14: a member of the queue is not outdated when it is appended; the flag of
\* a member changes only from false to true and only in the step in which the
\* rewrite of a different suggestion succeeds; and that step leaves every
\* other suggestion still in the queue outdated.  Reject, dismiss, navigation,
\* daemon deletion, arrivals and failures change no flag.
C14_OutdatedOnlyByOtherApply ==
  [][/\ \A i \in 1..Len(suggestionQueue), j \in 1..Len(suggestionQueue') :
          ( /\ suggestionQueue[i].sid = suggestionQueue'[j].sid
            /\ suggestionQueue[i].is_outdated # suggestionQueue'[j].is_outdated )
          => /\ suggestionQueue'[j].is_outdated
             /\ \E a \in applyReqs, t \in Docs :
                  /\ ApplySucceeds(a, t)
                  /\ a.suggestion.sid # suggestionQueue[i].sid
     /\ \A j \in 1..Len(suggestionQueue') :
          PositionOfSid(suggestionQueue, suggestionQueue'[j].sid) < 0
          => ~suggestionQueue'[j].is_outdated
     /\ \A a \in applyReqs, t \in Docs :
          ApplySucceeds(a, t) =>
            \A j \in 1..Len(suggestionQueue') :
              suggestionQueue'[j].sid # a.suggestion.sid
              => suggestionQueue'[j].is_outdated]_vars

\* Two suggestions arrived, the rewrite of one succeeded: the other is the
\* only member of the queue, outdated and selected.
C14_Witness ==
  /\ nextSid = 3
  /\ applyReqs = {}
  /\ Len(suggestionQueue) = 1
  /\ suggestionQueue[1].is_outdated
  /\ selectedSuggestion = suggestionQueue[1]

\* C15: a reject or dismiss dispatches no request and touches none in flight,
\* leaves the text as it is, and every suggestion still in the queue after it
\* is the object it was, with the flag it had.
C15_RejectDismissLocal ==
  [][(RejectSuggestion \/ DismissSuggestion) =>
       /\ UNCHANGED << inflight, counters, text >>
       /\ \A j \in 1..Len(suggestionQueue') :
            \E i \in 1..Len(suggestionQueue) :
              suggestionQueue[i] = suggestionQueue'[j]]_vars

\* Two suggestions arrived and nothing else was dispatched; one was rejected
\* or dismissed, the other is queued, selected and not outdated.
C15_Witness ==
  /\ nextRid = 3 /\ nextSid = 3
  /\ Len(suggestionQueue) = 1
  /\ selectedSuggestion = suggestionQueue[1]
  /\ ~selectedSuggestion.is_outdated
  /\ text = SAMPLE_TEXT

\* C16: a reject or dismiss of a suggestion S of the queue removes exactly S,
\* leaves the other members in their order and selects the first member of
\* the new queue, or null when it is empty.
C16_RejectRemovesExactlyS ==
  [][( /\ RejectSuggestion \/ DismissSuggestion
       /\ PositionOfSid(suggestionQueue, selectedSuggestion.sid) >= 0 )
     => /\ Sids(suggestionQueue') =
             SelectSeq(Sids(suggestionQueue),
                       LAMBDA x : x # selectedSuggestion.sid)
        /\ selectedSuggestion' = FirstOrNull(suggestionQueue')]_vars

\* C17: a delete of daemon D that succeeds removes from the queue the
\* suggestions of D and no other: every other member is still there, as the
\* object it was (flags included), and in the order it was in.
C17_DeleteRemovesExactlyDaemons ==
  [][\A r \in delReqs :
       DeleteSucceeds(r) =>
         /\ \A j \in 1..Len(suggestionQueue') :
              /\ suggestionQueue'[j].daemon_id # r.daemonId
              /\ IsMember(suggestionQueue, suggestionQueue'[j])
         /\ \A i \in 1..Len(suggestionQueue) :
              suggestionQueue[i].daemon_id # r.daemonId
              => \E j \in 1..Len(suggestionQueue') :
                   suggestionQueue'[j] = suggestionQueue[i]
         /\ \A j1, j2 \in 1..Len(suggestionQueue') :
              j1 < j2 =>
                PositionOfSid(suggestionQueue, suggestionQueue'[j1].sid)
                  < PositionOfSid(suggestionQueue, suggestionQueue'[j2].sid)]_vars

\* Two suggestions arrived, the custom daemon's one was selected when its
\* delete was confirmed, and the delete succeeded: the other daemon's
\* suggestion is what the queue holds.
C17_Witness ==
  /\ nextRid = 4 /\ nextSid = 3
  /\ daemons = {"clarity_coach"}
  /\ delReqs = {}
  /\ Len(suggestionQueue) = 1
  /\ suggestionQueue[1].daemon_id = "clarity_coach"
  /\ selectedSuggestion = Null

\* C18: when a delete succeeds and the selected suggestion is one of those it
\* removes from the queue, the selection becomes the first member of the new
\* queue, or null when it is empty; otherwise the selection is unchanged.
C18_SelectionAfterCascade ==
  [][\A r \in delReqs :
       DeleteSucceeds(r) =>
         IF /\ IsMember(suggestionQueue, selectedSuggestion)
            /\ selectedSuggestion.daemon_id = r.daemonId
         THEN selectedSuggestion' = FirstOrNull(suggestionQueue')
         ELSE selectedSuggestion' = selectedSuggestion]_vars

\* C19: the response to a request whose daemon is no longer in the list is
\* appended to the queue and selected like any other, and sets no error; a
\* suggestion of such a daemon leaves the queue only by a reject, a dismiss,
\* a clear, a rewrite that succeeds or a delete that succeeds.
C19_LateArrivalAppended ==
  /\ [][\A r \in sugReqs, k \in Kinds :
          (SuggestionArrives(r, k) /\ r.daemon \notin daemons) =>
            /\ Len(suggestionQueue') = Len(suggestionQueue) + 1
            /\ suggestionQueue'[Len(suggestionQueue')].daemon_id = r.daemon
            /\ selectedSuggestion' = suggestionQueue'[Len(suggestionQueue')]
            /\ connectionError' = connectionError
            /\ deleteError' = deleteError]_vars
  /\ [][\A i \in 1..Len(suggestionQueue) :
          ( /\ suggestionQueue[i].daemon_id \notin daemons
            /\ PositionOfSid(suggestionQueue', suggestionQueue[i].sid) < 0 )
          => \/ RejectSuggestion
             \/ DismissSuggestion
             \/ ClearHighlights
             \/ \E a \in applyReqs, t \in Docs : ApplySucceeds(a, t)
             \/ \E r \in delReqs : DeleteSucceeds(r)]_vars

\* The custom daemon was deleted while a request to it was in flight; the
\* response came afterwards and its suggestion is queued and selected.
C19_Witness ==
  /\ daemons = {"clarity_coach"}
  /\ Len(suggestionQueue) = 1
  /\ suggestionQueue[1].daemon_id = "custom_1"
  /\ selectedSuggestion = suggestionQueue[1]
  /\ connectionError = "none"

\* C20: a delete answered with 404 sets the delete notice, leaves the daemon
\* list as it is and does not touch the connection error.
C20_NotFoundNotice ==
  [][\A r \in delReqs :
       DeleteNotFound(r) =>
         /\ deleteError' # "none"
         /\ daemons' = daemons
         /\ connectionError' = connectionError]_vars

\* The delete of the custom daemon was answered with 404: the notice is up,
\* the daemon is still listed and there is no connection error.
C20_Witness ==
  /\ deleteError = "notFound"
  /\ showDeleteConfirm = "none"
  /\ "custom_1" \in daemons
  /\ connectionError = "none"

\* C21: a delete answered with 404 still removes from the queue the
\* suggestions of the daemon it was for.
C21_NotFoundCascades ==
  [][\A r \in delReqs :
       DeleteNotFound(r) =>
         \A j \in 1..Len(suggestionQueue') :
           suggestionQueue'[j].daemon_id # r.daemonId]_vars

\* C22: the daemon a delete is pending or in flight for is never one of the
\* protected ids, and a delete that succeeds leaves every protected daemon in
\* the list.
C22_ProtectedNeverDeleted ==
  /\ [](showDeleteConfirm \notin DefaultDaemonIds)
  /\ [](\A r \in delReqs : r.daemonId \notin DefaultDaemonIds)
  /\ [][\A r \in delReqs :
          DeleteSucceeds(r) =>
            \A d \in DefaultDaemonIds : d \in daemons => d \in daemons']_vars

\* The delete of the custom daemon succeeded while a protected daemon was
\* listed with it: the protected daemon is the one left.
C22_Witness ==
  /\ daemons = {"clarity_coach"}
  /\ showDeleteConfirm = "none"
  /\ delReqs = {}
  /\ suggestionQueue = <<>>

\* C23: a click on Add Daemon while the name or the prompt is empty changes
\* nothing (no request, the same daemon list, fields and modal), and every
\* create request dispatched carries a name and a prompt.
C23_EmptyCreateRejected ==
  /\ [][(AddDaemon /\ (newDaemon.name = "" \/ newDaemon.prompt = ""))
          => UNCHANGED vars]_vars
  /\ [](\A c \in createReqs : c.name # "" /\ c.prompt # "")
  /\ [][createReqs' \subseteq createReqs \/ AddDaemon]_vars

\* The modal is open with a name typed and no prompt, nothing was dispatched,
\* and the daemons are listed.
C23_Witness ==
  /\ showAddDaemon
  /\ newDaemon.name # "" /\ newDaemon.prompt = ""
  /\ createReqs = {}
  /\ nextRid = 1
  /\ daemons = ServerDaemons

\* What the next button selects from sel in q.
NextSelection(q, sel) == At(q, (FindIndex(q, sel) + 1) % Len(q))

\* What the previous button selects from sel in q.
PreviousSelection(q, sel) ==
  LET currentIndex == FindIndex(q, sel) IN
  At(q, IF currentIndex = 0 THEN Len(q) - 1 ELSE currentIndex - 1)

RECURSIVE IterateNext(_, _, _)
\* next, k times.
IterateNext(q, sel, k) ==
  IF k = 0 THEN sel ELSE IterateNext(q, NextSelection(q, sel), k - 1)

\* C24: with the selection in a queue of n >= 2 members, previous undoes next
\* and next undoes previous, next of the last member is the first and
\* previous of the first is the last, and next comes back to the selection
\* after n clicks and not earlier; the two buttons select just that.
C24_NavigationCycle ==
  /\ []((IsMember(suggestionQueue, selectedSuggestion) /\ Len(suggestionQueue) >= 2)
        => LET q == suggestionQueue
               sel == selectedSuggestion
               n == Len(suggestionQueue) IN
           /\ PreviousSelection(q, NextSelection(q, sel)) = sel
           /\ NextSelection(q, PreviousSelection(q, sel)) = sel
           /\ NextSelection(q, q[n]) = q[1]
           /\ PreviousSelection(q, q[1]) = q[n]
           /\ IterateNext(q, sel, n) = sel
           /\ \A k \in 1..(n - 1) : IterateNext(q, sel, k) # sel)
  /\ [][GoToNextSuggestion =>
          selectedSuggestion' = NextSelection(suggestionQueue, selectedSuggestion)]_vars
  /\ [][GoToPreviousSuggestion =>
          selectedSuggestion' =
            PreviousSelection(suggestionQueue, selectedSuggestion)]_vars

\* Three suggestions arrived and nothing else was dispatched; the first is
\* selected, which a click on next from the third (or two on previous) gives.
C24_Witness ==
  /\ nextRid = 4 /\ nextSid = 4
  /\ Len(suggestionQueue) = 3
  /\ selectedSuggestion = suggestionQueue[1]

\* C25: the navigation buttons do nothing while the selection is null or the
\* queue has at most one member; a click changes neither the text nor the two
\* arrays, and what it selects is a member of the queue.
C25_NavigationOnlySelects ==
  /\ []((selectedSuggestion = Null \/ Len(suggestionQueue) <= 1)
        => /\ ~ENABLED GoToNextSuggestion
           /\ ~ENABLED GoToPreviousSuggestion)
  /\ [][(GoToNextSuggestion \/ GoToPreviousSuggestion) =>
          /\ UNCHANGED << text, suggestions, suggestionQueue >>
          /\ IsMember(suggestionQueue', selectedSuggestion')]_vars

\* C26: a clear leaves the queue (and suggestions) empty and the selection
\* null, whatever they held and whatever is in flight; it dispatches no
\* request, drops none and leaves the text as it is.
C26_ClearEmpties ==
  [][ClearHighlights =>
       /\ suggestionQueue' = <<>>
       /\ suggestions' = <<>>
       /\ selectedSuggestion' = Null
       /\ UNCHANGED << text, inflight, createReqs, counters >>]_vars

\* Two suggestions arrived and a third request is in flight; the queue is
\* empty and nothing is selected.
C26_Witness ==
  /\ nextRid = 4 /\ nextSid = 3
  /\ sugReqs # {}
  /\ suggestionQueue = <<>>
  /\ suggestions = <<>>
  /\ selectedSuggestion = Null

\* piece is a run of consecutive characters of t (or empty).
IsPartOf(piece, t) ==
  \/ piece = <<>>
  \/ \E i \in 1..Len(t), j \in 1..Len(t) : i <= j /\ piece = SubSeq(t, i, j)

\* C27: when a suggestion with a span is selected, outdated or not, the pane
\* shows a highlight, each of its three pieces is a part of the current text,
\* and with an end index beyond the text (and the start inside it) the
\* highlight runs from the start to the end of the text.
C27_ProjectionWithinDocument ==
  LET p == RenderHighlightedText(text, suggestions, selectedSuggestion) IN
  (Len(suggestions) > 0 /\ selectedSuggestion # Null /\ selectedSuggestion.hasSpan)
  => /\ p.highlighted
     /\ IsPartOf(p.before, text)
     /\ IsPartOf(p.mark, text)
     /\ IsPartOf(p.after, text)
     /\ ( /\ selectedSuggestion.end_index > Len(text)
          /\ selectedSuggestion.start_index >= 0
          /\ selectedSuggestion.start_index <= Len(text) )
        => /\ p.before \o p.mark = text
           /\ Len(p.before) = selectedSuggestion.start_index
           /\ p.after = <<>>

\* A rewrite shortened the text to one character; the selected suggestion is
\* outdated and its span, right for the text it was made on, ends beyond the
\* text.
C27_Witness ==
  /\ text = <<"a">>
  /\ Len(suggestions) > 0
  /\ selectedSuggestion # Null
  /\ selectedSuggestion.is_outdated
  /\ selectedSuggestion.start_index = 1
  /\ selectedSuggestion.end_index = 2
  /\ selectedSuggestion.span_text = <<"b">>

\* The span of response k is one of text t.
WellFormedSpan(k, t) ==
  /\ 0 <= k.start_index
  /\ k.start_index <= k.end_index
  /\ k.end_index <= Len(t)
  /\ k.span_text = SubSeq(t, k.start_index + 1, k.end_index)

\* C28: a response whose span is not one of the text its request carried is
\* not appended, or is appended flagged.
C28_MalformedSpanRejected ==
  [][\A r \in sugReqs, k \in SpanKinds :
       (SuggestionArrives(r, k) /\ ~WellFormedSpan(k, r.text))
       => \/ suggestionQueue' = suggestionQueue
          \/ suggestionQueue'[Len(suggestionQueue')].is_outdated]_vars

\* C29: the success path of a rewrite (the text replaced, the others marked
\* outdated) is taken only for a suggestion that is in the queue when the
\* response is processed; for any other the rewrite is reported as a failure
\* of the engine instead.
C29_ApplyOfNonMemberReported ==
  [][\A a \in applyReqs, t \in Docs :
       ApplySucceeds(a, t) =>
         PositionOfSid(suggestionQueue, a.suggestion.sid) >= 0]_vars

\* C30: a reject or dismiss of a selected suggestion that is not in the queue
\* leaves the queue as it is, members and order, and sets no error.
C30_RemoveAbsentIsNoOp ==
  [][( /\ RejectSuggestion \/ DismissSuggestion
       /\ ~IsMember(suggestionQueue, selectedSuggestion) )
     => /\ suggestionQueue' = suggestionQueue
        /\ connectionError' = connectionError
        /\ deleteError' = deleteError]_vars

\* The selected suggestion was removed from the queue by the delete of its
\* daemon and its Reject button can be clicked.
C30_Witness ==
  /\ selectedSuggestion # Null
  /\ ~IsMember(suggestionQueue, selectedSuggestion)
  /\ PositionOfSid(suggestionQueue, selectedSuggestion.sid) < 0
  /\ "custom_1" \notin daemons
  /\ ENABLED RejectSuggestion

\* C31: no two positions of the queue hold the same object, nor two objects
\* made from the same response: each suggestion is at one position at most,
\* also in a queue rebuilt by a rewrite.
C31_NoDuplicateEntries ==
  \A i, j \in 1..Len(suggestionQueue) :
    i # j => /\ suggestionQueue[i].ref # suggestionQueue[j].ref
             /\ suggestionQueue[i].sid # suggestionQueue[j].sid

\* Three suggestions arrived and the rewrite of one succeeded: the queue holds
\* the copies of the other two.
C31_Witness ==
  /\ nextSid = 4
  /\ applyReqs = {}
  /\ Len(suggestionQueue) = 2
  /\ \A i \in 1..2 : suggestionQueue[i].is_outdated /\ suggestionQueue[i].ref[3] = "q"

\* What a collection holds, position by position: which suggestion, of which
\* daemon, with which flag.
Contents(q) ==
  [i \in 1..Len(q) |->
     [sid |-> q[i].sid, daemon_id |-> q[i].daemon_id,
      is_outdated |-> q[i].is_outdated]]

\* The textarea (the editor that takes typing) is what the text pane renders.
Editable == Len(suggestions) = 0

\* C32: suggestions and suggestionQueue hold the same suggestions in the same
\* order, so that the text pane is the editable textarea exactly when the
\* queue is empty.
C32_CollectionsAgree ==
  /\ Contents(suggestions) = Contents(suggestionQueue)
  /\ Editable <=> Len(suggestionQueue) = 0

\* C33: while the queue is not empty the text cannot be edited by typing.
C33_NoEditWhileQueued ==
  Len(suggestionQueue) > 0 => \A v \in Docs : ~ENABLED EditText(v)

\* C34: loading is true while a suggestion request or a rewrite request is in
\* flight.
C34_LoadingWhileInFlight ==
  (sugReqs # {} \/ applyReqs # {}) => loading

\* C35: a click on a daemon while the text is blank changes nothing, and no
\* request in flight carries a blank text.
C35_BlankRequestIgnored ==
  /\ [][\A d \in ServerDaemons :
          (GetSuggestionFromDaemon(d) /\ IsBlank(text)) => UNCHANGED vars]_vars
  /\ [](\A r \in sugReqs : ~IsBlank(r.text))
  /\ [][sugReqs' \subseteq sugReqs \/ ~IsBlank(text)]_vars

\* The text is blank, the swatch of a listed daemon takes clicks, and nothing
\* was ever dispatched.
C35_Witness ==
  /\ IsBlank(text)
  /\ PageClickable
  /\ "custom_1" \in daemons
  /\ ENABLED GetSuggestionFromDaemon("custom_1")
  /\ nextRid = 1
  /\ sugReqs = {}
  /\ ~loading
  /\ connectionError = "none"

\* C39: the error message is taken down only by a health check that succeeds
\* (the one of loadDaemons or the one of the Test Connection button); a
\* suggestion, a rewrite or a delete that succeeds leaves it as it is.
C39_ErrorClearedOnlyByHealth ==
  /\ [][(connectionError # "none" /\ connectionError' = "none")
          => (HealthOk \/ TestOk)]_vars
  /\ [][( \/ \E r \in sugReqs, k \in Kinds : SuggestionArrives(r, k)
          \/ \E a \in applyReqs, t \in Docs : ApplySucceeds(a, t)
          \/ \E r \in delReqs : DeleteSucceeds(r) )
        => connectionError' = connectionError]_vars

\* A suggestion request failed and another one arrived afterwards: its
\* suggestion is queued under the message of the failure.
C39_Witness ==
  /\ connectionError = "suggestion"
  /\ nextRid = 3 /\ nextSid = 2
  /\ sugReqs = {}
  /\ testReqs = 0
  /\ Len(suggestionQueue) = 1

\* C36: what the text pane shows is the text: the piece before the span, the
\* span and the piece after it, put together, are the current text, whatever
\* indices from 0 on the selected suggestion has (the start after the end and
\* indices beyond the text included).
C36_SegmentsMakeDocument ==
  LET p == RenderHighlightedText(text, suggestions, selectedSuggestion) IN
  (p.highlighted => (selectedSuggestion.start_index >= 0
                       /\ selectedSuggestion.end_index >= 0))
  => p.before \o p.mark \o p.after = text

\* C37: on the earlier page an answer that arrives changes only the answer of
\* the suggestion it was asked for: the list holds the suggestions it held,
\* in their order, none lost and none brought back, and every entry of
\* another daemon or question is the object it was.
C37_AnswerChangesOnlyAnswer ==
  [][\A a \in answerReqs, answer \in Answers :
       AnswerArrives(a, answer) =>
         /\ Sids(suggestions') = Sids(suggestions)
         /\ \A i \in 1..Len(suggestions) :
              \/ suggestions'[i] = suggestions[i]
              \/ /\ suggestions[i].daemon_id = a.suggestion.daemon_id
                 /\ suggestions[i].question = a.suggestion.question
                 /\ suggestions'[i] =
                      AnsweredCopy(suggestions[i], answer, "s")]_vars

\* C38: on the earlier page the list holds one suggestion per daemon at most;
\* an arrival from daemon D takes D's suggestion out, leaves the others as
\* they were, puts the new one at the end and selects it.
C38_OnePerDaemon ==
  /\ [](\A i, j \in 1..Len(suggestions) :
          i # j => suggestions[i].daemon_id # suggestions[j].daemon_id)
  /\ [][\A r \in sugReqs, k \in EarlierKinds :
          EarlierSuggestionArrives(r, k) =>
            /\ suggestions' =
                 Append(RemoveByDaemon(suggestions, r.daemon),
                        NewSuggestion(r, k, nextSid))
            /\ selectedSuggestion' = suggestions'[Len(suggestions')]
            /\ selectedSuggestion'.daemon_id = r.daemon]_vars

\* Both daemons had a suggestion; a second response of the first daemon came
\* and took the place of its first one, at the end of the list.
C38_Witness ==
  /\ nextRid = 4 /\ nextSid = 4
  /\ answerReqs = {} /\ delReqs = {}
  /\ Len(suggestions) = 2
  /\ Sids(suggestions) = <<2, 3>>
  /\ selectedSuggestion = suggestions[2]

====
